---- MODULE Spec2Model ----
(***************************************************************************)
(* A model of java-properties (src/src/lib.rs): the reading pipeline       *)
(* DecodeIter -> NaturalLines -> LogicalLines -> parse_line -> unescape    *)
(* behind PropertiesIter, and the writing pipeline write_escaped ->        *)
(* EncodingWriter behind PropertiesWriter.                                 *)
(*                                                                         *)
(* A character is its Unicode code point (a natural number), a string is a *)
(* sequence of characters, a byte is a number below 256.  An iterator is   *)
(* a record of its fields; a call of its next() is an operator from the    *)
(* record to [st |-> the record after the call, item |-> what it yields].  *)
(***************************************************************************)
EXTENDS Integers, Sequences, FiniteSets, TLC

VARIABLES
    input,   \* what the harness was given: bytes, natural lines, a string, or a pair
    it,      \* the iterator (or writer) under test, a record of its fields
    out,     \* the items the iterator has yielded so far, in order
    marks,   \* for each call of next() made so far: how many natural lines the
             \* source of natural lines had handed out when the call returned
    sink,    \* the bytes the writer has handed to its byte sink
    pc       \* position of the harness: "run", "done", "error", ...

vars == <<input, it, out, marks, sink, pc>>

----------------------------------------------------------------------------
(* Characters named by the source.                                         *)

LF == 10
CR == 13
TAB == 9
FF == 12
SP == 32
NUL == 0
BACKSLASH == 92
HASH == 35
BANG == 33
COLON == 58
EQUALS == 61

(* [ \t\r\n\x0c]: the "ignorable whitespace" of COMMENT_RE and LINE_RE.    *)
RE_WS == {SP, TAB, CR, LF, FF}

(* char::is_whitespace, which str::trim_start strips: the code points with *)
(* the Unicode White_Space property.                                       *)
UnicodeWhiteSpace ==
    (9..13) \cup {32, 133, 160, 5760} \cup (8192..8202) \cup {8232, 8233, 8239, 8287, 12288}

(* Items an iterator yields: Some(Ok(v)), Some(Err(e)), None.  line = 0    *)
(* stands for a line number of None.                                       *)
Ok(v) == [tag |-> "Ok", val |-> v, line |-> 0]
Err(desc, ln) == [tag |-> "Err", val |-> desc, line |-> ln]
None == [tag |-> "None", val |-> <<>>, line |-> 0]

Min(a, b) == IF a < b THEN a ELSE b

(* The strings over alphabet A of length at most n.                        *)
RECURSIVE StringsUpTo(_, _)
StringsUpTo(A, n) ==
    IF n = 0 THEN {<<>>}
    ELSE LET shorter == StringsUpTo(A, n - 1)
         IN  shorter \cup {Append(s, c) : s \in {t \in shorter : Len(t) = n - 1}, c \in A}

----------------------------------------------------------------------------
(* The byte source (std::io::Read).  data: the bytes not yet returned;     *)
(* chunk: the most bytes one read returns; fail: whether the source fails  *)
(* once its data is exhausted (tests: input.as_bytes().chain(ErrorReader)) *)
(* instead of reporting end of input with Ok(0).                           *)

Reader(data, chunk, fail) == [data |-> data, chunk |-> chunk, fail |-> fail]

ReaderRead(r, cap) ==
    LET n == Min(Min(r.chunk, cap), Len(r.data))
    IN  IF r.data = <<>> /\ r.fail
        THEN [reader |-> r, err |-> TRUE, bytes |-> <<>>]
        ELSE [reader |-> [r EXCEPT !.data = SubSeq(r.data, n + 1, Len(r.data))],
              err |-> FALSE,
              bytes |-> SubSeq(r.data, 1, n)]

(* The charset (WINDOWS_1252 of encoding_rs), on the bytes the model uses: *)
(* ASCII and 0xA0..0xFF decode to the code point of the same number, 0x80  *)
(* decodes to U+20AC; the other bytes of 0x80..0x9F are not used.          *)
DecodeByte(b) == IF b = 128 THEN 8364 ELSE b

Utf8Len(c) == IF c < 128 THEN 1 ELSE IF c < 2048 THEN 2 ELSE IF c < 65536 THEN 3 ELSE 4

(* The length of the UTF-8 form of the first n bytes of src, decoded.      *)
Utf8Total(src, n) ==
    Cardinality({i \in 1..n : Utf8Len(DecodeByte(src[i])) = 1})
    + 2 * Cardinality({i \in 1..n : Utf8Len(DecodeByte(src[i])) = 2})
    + 3 * Cardinality({i \in 1..n : Utf8Len(DecodeByte(src[i])) = 3})
    + 4 * Cardinality({i \in 1..n : Utf8Len(DecodeByte(src[i])) = 4})

(* How many bytes of src are decoded: the longest prefix whose UTF-8 form  *)
(* fits a String of capacity cap.                                          *)
FitsCount(src, cap) ==
    CHOOSE n \in 0..Len(src) :
        /\ Utf8Total(src, n) <= cap
        /\ n < Len(src) => Utf8Total(src, n + 1) > cap

Decoded(src, n) ==
    [result |-> IF n = Len(src) THEN "InputEmpty" ELSE "OutputFull",
     read |-> n,
     chars |-> SubSeq([i \in 1..Len(src) |-> DecodeByte(src[i])], 1, n)]

(* Decoder::decode_to_string into an empty String of capacity cap.         *)
decode_to_string(src, cap) == Decoded(src, FitsCount(src, cap))

INPUT_BUFFER_CAPACITY == 64
OUTPUT_BUFFER_CAPACITY == 64

DecodeIterNew(reader) ==
    [reader |-> reader, input_buffer |-> <<>>, in_cap |-> INPUT_BUFFER_CAPACITY,
     out_cap |-> OUTPUT_BUFFER_CAPACITY, chars |-> <<>>]

(* DecodeIter::next, one turn of its loop after another.  The result of    *)
(* each step of a turn is handed on as a parameter.                         *)
RECURSIVE DecodeIterNext(_)

(* Lines 209-213: the decoded characters are queued (d is the state with   *)
(* them queued); the stream ends when none came and the source is at end.  *)
DecodeTurnEnd(d, reader_eof) ==
    IF d.chars = <<>> /\ reader_eof THEN [st |-> d, item |-> None] ELSE DecodeIterNext(d)

(* A plausible slip: the whole input buffer is cleared after decoding.     *)
DecodeDrain_Clear(d, buf, reader_eof, dec) ==
    DecodeTurnEnd([d EXCEPT !.input_buffer = <<>>,
                            !.out_cap = IF dec.result = "OutputFull" THEN 2 * @ ELSE @,
                            !.chars = dec.chars],
                  reader_eof)

(* Lines 202-209: the decoded bytes leave input_buffer, a full output      *)
(* buffer doubles its capacity, the characters go to the queue.            *)
DecodeDrain(d, buf, reader_eof, dec) ==
    DecodeTurnEnd([d EXCEPT !.input_buffer = SubSeq(buf, dec.read + 1, Len(buf)),
                            !.out_cap = IF dec.result = "OutputFull" THEN 2 * @ ELSE @,
                            !.chars = dec.chars],
                  reader_eof)

(* Lines 197-201.                                                          *)
DecodeBuffer(d, buf, reader_eof) ==
    DecodeDrain(d, buf, reader_eof, decode_to_string(buf, d.out_cap))

(* Lines 185-193: r is what self.reader.read returned.                     *)
DecodeAfterRead(d, r) ==
    IF r.err
    THEN [st |-> [d EXCEPT !.input_buffer = <<>>], item |-> Err("io", 0)]
    ELSE DecodeBuffer([d EXCEPT !.reader = r.reader], r.bytes, r.bytes = <<>>)

DecodeIterNext(d) ==
    IF d.chars # <<>>
    THEN [st |-> [d EXCEPT !.chars = Tail(@)], item |-> Ok(Head(d.chars))]
    ELSE IF d.input_buffer = <<>>
         THEN DecodeAfterRead(d, ReaderRead(d.reader, d.in_cap))
         ELSE DecodeBuffer(d, d.input_buffer, FALSE)

(* Peekable<DecodeIter>: peeked is <<>> or <<item>>, the item a peek()     *)
(* pulled and a later next() has still to hand out.                        *)
PeekableNew(iter) == [iter |-> iter, peeked |-> <<>>]

PeekablePulled(p, r, keep) ==
    [st |-> [p EXCEPT !.iter = r.st, !.peeked = IF keep THEN <<r.item>> ELSE <<>>],
     item |-> r.item]

PeekableNext(p) ==
    IF p.peeked # <<>>
    THEN [st |-> [p EXCEPT !.peeked = <<>>], item |-> p.peeked[1]]
    ELSE PeekablePulled(p, DecodeIterNext(p.iter), FALSE)

PeekablePeek(p) ==
    IF p.peeked # <<>>
    THEN [st |-> p, item |-> p.peeked[1]]
    ELSE PeekablePulled(p, DecodeIterNext(p.iter), TRUE)

----------------------------------------------------------------------------
(* NaturalLines.                                                           *)

NaturalLine(n, text) == [line_no |-> n, text |-> text]

NaturalLinesNew(reader) ==
    [kind |-> "NaturalLines", chars |-> PeekableNew(DecodeIterNew(reader)),
     eof |-> FALSE, line_count |-> 0]

(* pk is what self.chars.peek() returned after a CR.                       *)
AfterPeek(pk) ==
    IF pk.item.tag = "Ok" /\ pk.item.val = LF THEN PeekableNext(pk.st).st ELSE pk.st

(* A plausible slip: the LF after a CR is left in the stream.              *)
AfterCR_LeaveLF(p) == PeekablePeek(p).st

(* After a CR: a following LF is consumed with it.                         *)
AfterCR(p) == AfterPeek(PeekablePeek(p))

RECURSIVE NaturalLinesLoop(_, _)

(* A plausible slip: at the end of the stream no last line is handed out.  *)
NaturalLinesMatch_NoLast(n, buf, r) ==
    CASE r.item.tag = "Ok" /\ r.item.val = CR ->
           [st |-> [n EXCEPT !.chars = AfterCR(r.st), !.line_count = @ + 1],
            item |-> Ok(NaturalLine(n.line_count + 1, buf))]
      [] r.item.tag = "Ok" /\ r.item.val = LF ->
           [st |-> [n EXCEPT !.chars = r.st, !.line_count = @ + 1],
            item |-> Ok(NaturalLine(n.line_count + 1, buf))]
      [] r.item.tag = "Ok" /\ r.item.val \notin {CR, LF} ->
           NaturalLinesLoop([n EXCEPT !.chars = r.st], Append(buf, r.item.val))
      [] r.item.tag = "Err" ->
           [st |-> [n EXCEPT !.chars = r.st],
            item |-> Err("I/O error", n.line_count + 1)]
      [] r.item.tag = "None" ->
           [st |-> [n EXCEPT !.chars = r.st, !.eof = TRUE], item |-> None]

(* The match on r, what self.chars.next() returned.                        *)
NaturalLinesMatch(n, buf, r) ==
    CASE r.item.tag = "Ok" /\ r.item.val = CR ->
           [st |-> [n EXCEPT !.chars = AfterCR(r.st), !.line_count = @ + 1],
            item |-> Ok(NaturalLine(n.line_count + 1, buf))]
      [] r.item.tag = "Ok" /\ r.item.val = LF ->
           [st |-> [n EXCEPT !.chars = r.st, !.line_count = @ + 1],
            item |-> Ok(NaturalLine(n.line_count + 1, buf))]
      [] r.item.tag = "Ok" /\ r.item.val \notin {CR, LF} ->
           NaturalLinesLoop([n EXCEPT !.chars = r.st], Append(buf, r.item.val))
      [] r.item.tag = "Err" ->
           [st |-> [n EXCEPT !.chars = r.st],
            item |-> Err("I/O error", n.line_count + 1)]
      [] r.item.tag = "None" ->
           [st |-> [n EXCEPT !.chars = r.st, !.eof = TRUE, !.line_count = @ + 1],
            item |-> Ok(NaturalLine(n.line_count + 1, buf))]

NaturalLinesLoop(n, buf) == NaturalLinesMatch(n, buf, PeekableNext(n.chars))

(* NaturalLines::next.                                                     *)
NaturalLinesNext(n) ==
    IF n.eof THEN [st |-> n, item |-> None] ELSE NaturalLinesLoop(n, <<>>)

----------------------------------------------------------------------------
(* How many natural lines the iterator under test has pulled, or, being   *)
(* NaturalLines, handed out.                                               *)
RECURSIVE NaturalLinesPulled(_)
NaturalLinesPulled(i) ==
    CASE "lines" \in DOMAIN i -> NaturalLinesPulled(i.lines)
      [] "physical_lines" \in DOMAIN i -> NaturalLinesPulled(i.physical_lines)
      [] "count" \in DOMAIN i -> i.count
      [] OTHER -> i.line_count

(* What every harness does with r, the result of a call of next(): the     *)
(* item is recorded, and an error or None ends the pulling.                *)
Yielded(r) ==
    /\ it' = r.st
    /\ out' = IF r.item.tag = "None" THEN out ELSE Append(out, r.item)
    /\ marks' = Append(marks, NaturalLinesPulled(r.st))
    /\ pc' = CASE r.item.tag = "None" -> "done"
              [] r.item.tag = "Err" -> "error"
              [] r.item.tag = "Panic" -> "panic"
              [] OTHER -> "run"

(* Harness of tests::natural_lines: NaturalLines over a byte slice, pulled *)
(* until it yields None.                                                   *)

MaxNaturalLen == 4
MaxChunk == 2
(* space, CR, LF, and the byte 0x80, which decodes to U+20AC *)
NaturalAlphabet == {SP, CR, LF, 128}

InitNatural ==
    /\ input \in StringsUpTo(NaturalAlphabet, MaxNaturalLen)
    /\ \E chunk \in 1..MaxChunk : it = NaturalLinesNew(Reader(input, chunk, FALSE))
    /\ out = <<>>
    /\ marks = <<>>
    /\ sink = <<>>
    /\ pc = "run"

PullNatural ==
    /\ pc = "run"
    /\ Yielded(NaturalLinesNext(it))
    /\ UNCHANGED <<input, sink>>

NextNatural == PullNatural

SpecNatural == InitNatural /\ [][NextNatural]_vars

(* The characters the bytes of the input stand for.                        *)
DecodeAll(bytes) == [i \in 1..Len(bytes) |-> DecodeByte(bytes[i])]

(* The terminators of s: every CR, and every LF not right after a CR.      *)
CountTerminators(s) ==
    Cardinality({i \in 1..Len(s) : s[i] = CR})
    + Cardinality({i \in 1..Len(s) : s[i] = LF /\ ~(i > 1 /\ s[i - 1] = CR)})

IsPrefix(p, s) == Len(p) <= Len(s) /\ SubSeq(s, 1, Len(p)) = p

DropFirst(s, n) == SubSeq(s, n + 1, Len(s))

(* s is the texts, in order, each but the last followed by CR LF, CR or LF. *)
RECURSIVE Reconstructs(_, _)
Reconstructs(texts, s) ==
    IF Len(texts) = 1 THEN s = texts[1]
    ELSE \E term \in {<<CR, LF>>, <<CR>>, <<LF>>} :
            /\ IsPrefix(texts[1] \o term, s)
            /\ Reconstructs(Tail(texts), DropFirst(s, Len(texts[1]) + Len(term)))

NaturalTexts == [i \in 1..Len(out) |-> out[i].val.text]

\* C4: NaturalLines yields (number of terminators + 1) lines, numbered 1, 2, 3, ...
\* in order, none containing CR or LF, and the texts with the terminators that
\* ended them put back are the input; the empty input yields the one line (1, "").
C4_NaturalLinesSplit ==
    /\ \A i \in 1..Len(out) :
          /\ out[i].tag = "Ok"
          /\ out[i].val.line_no = i
          /\ \A j \in 1..Len(out[i].val.text) : out[i].val.text[j] \notin {CR, LF}
    /\ pc = "done" =>
          /\ Len(out) = CountTerminators(DecodeAll(input)) + 1
          /\ Reconstructs(NaturalTexts, DecodeAll(input))
          /\ input = <<>> => out = <<Ok(NaturalLine(1, <<>>))>>

(* A CR LF pair inside the input was consumed as one terminator.           *)
C4_Witness ==
    /\ pc = "done"
    /\ input = <<128, CR, LF, SP>>
    /\ NaturalTexts = << <<8364>>, <<SP>> >>

----------------------------------------------------------------------------
(* LogicalLines.  physical_lines is NaturalLines, or (tests::logical_lines) *)
(* an iterator over a vector of texts that numbers them 1, 2, 3, ...       *)

VecIter(lines) == [kind |-> "Vec", texts |-> lines, count |-> 0]

VecIterNext(v) ==
    IF v.count = Len(v.texts) THEN [st |-> v, item |-> None]
    ELSE [st |-> [v EXCEPT !.count = @ + 1],
          item |-> Ok(NaturalLine(v.count + 1, v.texts[v.count + 1]))]

PhysicalLinesNext(pl) ==
    IF pl.kind = "Vec" THEN VecIterNext(pl) ELSE NaturalLinesNext(pl)

LogicalLine(n, text) == [line_no |-> n, text |-> text]

LogicalLinesNew(physical_lines) == [physical_lines |-> physical_lines, eof |-> FALSE]

RECURSIVE CountFrom(_, _)
CountFrom(s, n) ==
    IF s = <<>> THEN n
    ELSE CountFrom(Tail(s), IF Head(s) = BACKSLASH THEN n + 1 ELSE 0)

(* A plausible slip: every backslash of the line is counted.               *)
count_ending_backslashes_All(s) == Cardinality({i \in 1..Len(s) : s[i] = BACKSLASH})

count_ending_backslashes(s) == CountFrom(s, 0)

(* str::trim_start: the text from the first character that is not         *)
(* White_Space on.                                                         *)
RECURSIVE trim_start(_)
trim_start(s) ==
    IF s # <<>> /\ Head(s) \in UnicodeWhiteSpace THEN trim_start(Tail(s)) ELSE s

(* The text from the first character outside ws on.                        *)
RECURSIVE SkipLeading(_, _)
SkipLeading(s, ws) ==
    IF s # <<>> /\ Head(s) \in ws THEN SkipLeading(Tail(s), ws) ELSE s

(* COMMENT_RE.is_match: "^[ \t\r\n\x0c]*[#!]".                             *)
COMMENT_RE_is_match(line) ==
    LET rest == SkipLeading(line, RE_WS)
    IN  rest # <<>> /\ Head(rest) \in {HASH, BANG}

(* String::pop.                                                            *)
Pop(buf) == IF buf = <<>> THEN buf ELSE SubSeq(buf, 1, Len(buf) - 1)

(* What is appended to buf for a natural line.                             *)
Appended(first, line) == IF first THEN line ELSE trim_start(line)

(* A plausible slip: the comment rule is applied to continuation lines too. *)
StopsAsComment_AnyLine(first, line) == COMMENT_RE_is_match(line)

(* Whether the line just appended ends the logical line as a comment.      *)
StopsAsComment(first, line) == first /\ COMMENT_RE_is_match(line)

(* A plausible slip: any trailing backslash continues the line.            *)
IsContinued_AnyBackslash(line) == count_ending_backslashes(line) >= 1

(* Whether the line just appended is continued by the next one.            *)
IsContinued(line) == count_ending_backslashes(line) % 2 = 1

(* A plausible slip: the number is taken from every natural line appended.  *)
LineNumberAfter_Latest(first, line_number, line_no) == line_no

(* The line number a logical line carries after one more natural line.     *)
LineNumberAfter(first, line_number, line_no) == IF first THEN line_no ELSE line_number

RECURSIVE LogicalLinesLoop(_, _, _, _)

(* A plausible slip: the continuation backslash is left in the text.       *)
LogicalLinesDecide_KeepBackslash(l, buf, first, ln, line) ==
    IF StopsAsComment(first, line)
    THEN [st |-> l, item |-> Ok(LogicalLine(ln, buf))]
    ELSE IF IsContinued(line)
         THEN LogicalLinesLoop(l, buf, FALSE, ln)
         ELSE [st |-> l, item |-> Ok(LogicalLine(ln, buf))]

(* Lines 330-345, after the push_str: l is the state with the natural line *)
(* taken, buf the text with it appended, ln the line number.               *)
LogicalLinesDecide(l, buf, first, ln, line) ==
    IF StopsAsComment(first, line)
    THEN [st |-> l, item |-> Ok(LogicalLine(ln, buf))]
    ELSE IF IsContinued(line)
         THEN LogicalLinesLoop(l, Pop(buf), FALSE, ln)
         ELSE [st |-> l, item |-> Ok(LogicalLine(ln, buf))]

(* The match on r, what self.physical_lines.next() returned.               *)
LogicalLinesMatch(l, buf, first, line_number, r) ==
    CASE r.item.tag = "Err" -> [st |-> [l EXCEPT !.physical_lines = r.st], item |-> r.item]
      [] r.item.tag = "Ok" ->
           LogicalLinesDecide([l EXCEPT !.physical_lines = r.st],
                              buf \o Appended(first, r.item.val.text),
                              first,
                              LineNumberAfter(first, line_number, r.item.val.line_no),
                              r.item.val.text)
      [] r.item.tag = "None" ->
           [st |-> [l EXCEPT !.physical_lines = r.st, !.eof = TRUE], item |-> None]

LogicalLinesLoop(l, buf, first, line_number) ==
    LogicalLinesMatch(l, buf, first, line_number, PhysicalLinesNext(l.physical_lines))

(* LogicalLines::next.                                                     *)
LogicalLinesNext(l) ==
    IF l.eof THEN [st |-> l, item |-> None] ELSE LogicalLinesLoop(l, <<>>, TRUE, 0)

----------------------------------------------------------------------------
(* unescape.                                                               *)

CH_t == 116
CH_n == 110
CH_f == 102
CH_r == 114
CH_u == 117
PLUS == 43

(* char::to_digit(16) on one character; -1 for None.                       *)
HexDigit(c) ==
    CASE c \in 48..57 -> c - 48
      [] c \in 97..102 -> c - 87
      [] c \in 65..70 -> c - 55
      [] OTHER -> -1

RECURSIVE DigitsValue(_, _)
DigitsValue(digits, acc) ==
    IF digits = <<>> THEN acc
    ELSE IF HexDigit(Head(digits)) < 0 THEN -1
    ELSE DigitsValue(Tail(digits), 16 * acc + HexDigit(Head(digits)))

(* u16::from_str_radix(tmp, 16) on the four characters tmp; -1 for Err.    *)
(* As std has it, one leading '+' is a sign and is skipped, unless nothing *)
(* follows it; four hex digits never overflow a u16.                       *)
from_str_radix(tmp) ==
    IF Head(tmp) = PLUS THEN DigitsValue(Tail(tmp), 0) ELSE DigitsValue(tmp, 0)

(* std::char::from_u32 is None for the surrogates U+D800..U+DFFF.          *)
from_u32_is_none(val) == val \in 55296..57343

RECURSIVE UnescapeFrom(_, _, _)

(* Lines 468-487: val is what from_str_radix gave for the four characters, *)
(* rest what follows them.                                                 *)
UnescapeCodeUnit(val, rest, buf, line_number) ==
    IF val < 0 THEN Err("Malformed \\uxxxx encoding: not hex.", line_number)
    ELSE IF from_u32_is_none(val)
         THEN Err("Malformed \\uxxxx encoding: invalid character.", line_number)
         ELSE UnescapeFrom(rest, Append(buf, val), line_number)

(* Lines 456-467: s is what follows the 'u'.                               *)
UnescapeU(s, buf, line_number) ==
    IF Len(s) < 4 THEN Err("Malformed \\uxxxx encoding: not enough digits.", line_number)
    ELSE UnescapeCodeUnit(from_str_radix(SubSeq(s, 1, 4)), DropFirst(s, 4), buf, line_number)

(* A plausible slip: the letters t, n, f, r after a backslash stay letters. *)
UnescapeEscaped_Literal(c, s, buf, line_number) ==
    IF c = CH_u THEN UnescapeU(s, buf, line_number)
    ELSE UnescapeFrom(s, Append(buf, c), line_number)

(* Lines 450-490: c is the character after a backslash, s what follows c.  *)
UnescapeEscaped(c, s, buf, line_number) ==
    CASE c = CH_t -> UnescapeFrom(s, Append(buf, TAB), line_number)
      [] c = CH_n -> UnescapeFrom(s, Append(buf, LF), line_number)
      [] c = CH_f -> UnescapeFrom(s, Append(buf, FF), line_number)
      [] c = CH_r -> UnescapeFrom(s, Append(buf, CR), line_number)
      [] c = CH_u -> UnescapeU(s, buf, line_number)
      [] OTHER -> UnescapeFrom(s, Append(buf, c), line_number)

UnescapeFrom(s, buf, line_number) ==
    IF s = <<>> THEN Ok(buf)
    ELSE IF Head(s) # BACKSLASH THEN UnescapeFrom(Tail(s), Append(buf, Head(s)), line_number)
    ELSE IF Len(s) = 1 THEN Ok(Append(buf, NUL))
    ELSE UnescapeEscaped(s[2], DropFirst(s, 2), buf, line_number)

unescape(s, line_number) == UnescapeFrom(s, <<>>, line_number)

----------------------------------------------------------------------------
(* parse_line: LINE_RE.captures(line) and the choice among its groups.     *)
(* LINE_RE is anchored at both ends, so the whole line is matched or the   *)
(* match fails (the panic of line 559); the scan below takes the pattern's *)
(* preferred match.  "." does not match LF.                                *)

ParsedNone == [kind |-> "None", key |-> <<>>, value |-> <<>>]
ParsedPanic == [kind |-> "Panic", key |-> <<>>, value |-> <<>>]
ParsedComment(text) == [kind |-> "Comment", key |-> <<>>, value |-> text]
ParsedKVPair(k, v) == [kind |-> "KVPair", key |-> k, value |-> v]

(* s without its trailing run of characters of ws.                         *)
RECURSIVE SkipTrailing(_, _)
SkipTrailing(s, ws) ==
    IF s # <<>> /\ s[Len(s)] \in ws THEN SkipTrailing(Pop(s), ws) ELSE s

Contains(s, c) == \E i \in 1..Len(s) : s[i] = c

CommentText_Raw(s) == s

(* Group 1, for what follows the # or !: "[ws]*(.*?)[ws]*$".               *)
CommentText(s) == SkipTrailing(SkipLeading(s, RE_WS), RE_WS)

(* How much of s "(?:[^\\:=\x20\t\r\n\x0c]|\\.)*" takes.                   *)
RECURSIVE KeyLen(_)
KeyLen(s) ==
    IF s = <<>> THEN 0
    ELSE IF Head(s) \notin ({BACKSLASH, COLON, EQUALS} \cup RE_WS) THEN 1 + KeyLen(Tail(s))
    ELSE IF Head(s) = BACKSLASH /\ Len(s) >= 2 /\ s[2] # LF THEN 2 + KeyLen(DropFirst(s, 2))
    ELSE 0

(* Whether "(?:[^\\]|\\.)*?(?:\\$)?$" matches all of v.                     *)
RECURSIVE ValueMatches(_)
ValueMatches(v) ==
    IF v = <<>> THEN TRUE
    ELSE IF Head(v) # BACKSLASH THEN ValueMatches(Tail(v))
    ELSE IF Len(v) = 1 THEN TRUE
    ELSE IF v[2] = LF THEN FALSE
    ELSE ValueMatches(DropFirst(v, 2))

(* A plausible slip: every ':' and '=' after the key is taken as separator. *)
AfterSeparator_Greedy(s) == SkipLeading(s, RE_WS \cup {COLON, EQUALS})

(* The value after the separator: s starts at the separator and has its    *)
(* leading whitespace skipped already.                                     *)
AfterSeparator(s) ==
    IF s # <<>> /\ Head(s) \in {COLON, EQUALS} THEN SkipLeading(Tail(s), RE_WS) ELSE s

ParsedValue(key, value) ==
    IF ValueMatches(value) THEN ParsedKVPair(key, value) ELSE ParsedPanic

(* Groups 2 and 3: key is group 2 without an end-of-line backslash, s what *)
(* follows it.                                                             *)
ParseAfterKey(key, s) ==
    IF s = <<>> THEN (IF key # <<>> THEN ParsedKVPair(key, <<>>) ELSE ParsedNone)
    ELSE IF s = <<BACKSLASH>> THEN ParsedKVPair(Append(key, BACKSLASH), <<>>)
    ELSE IF Head(s) = BACKSLASH THEN ParsedPanic
    ELSE ParsedValue(key, AfterSeparator(SkipLeading(s, RE_WS)))

ParseKeyValue(s, n) == ParseAfterKey(SubSeq(s, 1, n), DropFirst(s, n))

(* s is the line after its leading ignorable whitespace.                   *)
ParseAlternatives(s) ==
    IF s # <<>> /\ Head(s) \in {HASH, BANG} /\ ~Contains(CommentText(Tail(s)), LF)
    THEN ParsedComment(CommentText(Tail(s)))
    ELSE ParseKeyValue(s, KeyLen(s))

parse_line(line) == ParseAlternatives(SkipLeading(line, RE_WS))

----------------------------------------------------------------------------
(* PropertiesIter.                                                         *)

mk_pair(line_number, key, value) ==
    [line_number |-> line_number, data |-> [kind |-> "KVPair", key |-> key, value |-> value]]

mk_comment(line_number, text) ==
    [line_number |-> line_number, data |-> [kind |-> "Comment", key |-> <<>>, value |-> text]]

(* The ? operator on an unescape result e: an error is returned as it is.  *)
PairFrom(line_number, key, value) ==
    IF key.tag = "Err" THEN key
    ELSE IF value.tag = "Err" THEN value
    ELSE Ok(mk_pair(line_number, key.val, value.val))

CommentFrom(line_number, comment) ==
    IF comment.tag = "Err" THEN comment ELSE Ok(mk_comment(line_number, comment.val))

parsed_line_to_line(parsed_line, line_number) ==
    IF parsed_line.kind = "Comment"
    THEN CommentFrom(line_number, unescape(parsed_line.value, line_number))
    ELSE PairFrom(line_number, unescape(parsed_line.key, line_number),
                  unescape(parsed_line.value, line_number))

PropertiesIterNew(reader) == [lines |-> LogicalLinesNew(NaturalLinesNew(reader))]

Panic == [tag |-> "Panic", val |-> <<>>, line |-> 0]

RECURSIVE PropertiesIterNext(_)

(* Lines 631-633: parsed is what parse_line gave for the logical line.     *)
PropertiesIterParsed(p, line_no, parsed) ==
    CASE parsed.kind = "None" -> PropertiesIterNext(p)
      [] parsed.kind = "Panic" -> [st |-> p, item |-> Panic]
      [] OTHER -> [st |-> p, item |-> parsed_line_to_line(parsed, line_no)]

(* The match on r, what self.lines.next() returned.                        *)
PropertiesIterMatch(p, r) ==
    IF r.item.tag = "Ok"
    THEN PropertiesIterParsed([p EXCEPT !.lines = r.st], r.item.val.line_no,
                              parse_line(r.item.val.text))
    ELSE [st |-> [p EXCEPT !.lines = r.st], item |-> r.item]

(* PropertiesIter::next.                                                   *)
PropertiesIterNext(p) == PropertiesIterMatch(p, LogicalLinesNext(p.lines))

----------------------------------------------------------------------------
(* EncodingWriter over a Vec<u8> sink (as in the tests): write_all and     *)
(* flush of a Vec cannot fail, so every call below returns Ok and is       *)
(* modelled by the state it leaves.                                        *)

BUFFER_CAPACITY == 256

(* The encoder (WINDOWS_1252 of encoding_rs) on the characters the model   *)
(* uses: ASCII and U+00A0..U+00FF encode to the byte of the same number,   *)
(* U+20AC to 0x80; -1 stands for a character the charset does not have.    *)
EncodeChar(c) ==
    CASE c < 128 -> c
      [] c \in 160..255 -> c
      [] c = 8364 -> 128
      [] OTHER -> -1

(* One lowercase hexadecimal digit.                                        *)
HexChar(d) == IF d < 10 THEN 48 + d ELSE 87 + d

(* format!("{:x}", n): the hexadecimal digits of n, lowercase, no padding. *)
RECURSIVE LowerHex(_)
LowerHex(n) ==
    IF n < 16 THEN <<HexChar(n)>> ELSE Append(LowerHex(n \div 16), HexChar(n % 16))

EncoderResult(result, c, read, buffer) ==
    [result |-> result, c |-> c, read |-> read, buffer |-> buffer]

(* Why the encoder stops before taking data[j], with i the first index it  *)
(* was given: no input left, no room left, or nothing to encode data[j] to. *)
EncoderStops(data, i, buffer, capacity, j) ==
    \/ j > Len(data)
    \/ Len(buffer) + (j - i) >= capacity
    \/ EncodeChar(data[j]) < 0

(* The first index at which the encoder stops.                             *)
EncoderStop(data, i, buffer, capacity) ==
    CHOOSE j \in i..(Len(data) + 1) :
        /\ EncoderStops(data, i, buffer, capacity, j)
        /\ \A k \in i..(j - 1) : ~EncoderStops(data, i, buffer, capacity, k)

(* The buffer with data[i..j-1] encoded onto it.                           *)
EncodedOnto(data, i, buffer, j) ==
    buffer \o [k \in 1..(j - i) |-> EncodeChar(data[i + k - 1])]

EncodeStoppedAt(data, i, buffer, capacity, j) ==
    IF j > Len(data) THEN EncoderResult("InputEmpty", 0, Len(data), EncodedOnto(data, i, buffer, j))
    ELSE IF Len(buffer) + (j - i) >= capacity
         THEN EncoderResult("OutputFull", 0, j - 1, EncodedOnto(data, i, buffer, j))
         ELSE EncoderResult("Unmappable", data[j], j, EncodedOnto(data, i, buffer, j))

(* encode_from_utf8_to_vec_without_replacement(data, buffer, _): characters *)
(* are encoded into the spare capacity of buffer, from data[i] on, until    *)
(* data ends, the capacity is used up, or a character cannot be encoded;    *)
(* read is the number of characters of data taken.                         *)
EncodeFrom(data, i, buffer, capacity) ==
    EncodeStoppedAt(data, i, buffer, capacity, EncoderStop(data, i, buffer, capacity))

EncodingWriterNew(writer) ==
    [writer |-> writer, lines_written |-> 0, buffer |-> <<>>, capacity |-> BUFFER_CAPACITY]

(* self.buffer.reserve(self.buffer.capacity() * 2)                         *)
Reserve(w) == [w EXCEPT !.capacity = Len(w.buffer) + 2 * w.capacity]

flush_buffer(w) == [w EXCEPT !.writer = w.writer \o w.buffer, !.buffer = <<>>]

(* Lines 690-713: e2 is the result of encoding the escape text; how much   *)
(* of it was taken is not looked at.                                       *)
AfterEscape(w, e2) ==
    IF e2.result = "OutputFull"
    THEN Reserve([w EXCEPT !.buffer = e2.buffer])
    ELSE [w EXCEPT !.buffer = e2.buffer]

(* format!("\\u{:x}", c as isize)                                          *)
UnmappableEscape(c) == <<BACKSLASH, CH_u>> \o LowerHex(c)

RECURSIVE EncodingWriterWrite(_, _)

(* The match on result (lines 683-715); e is what the encoder returned for *)
(* data.                                                                   *)
EncodingWriterMatch(w, data, e) ==
    CASE e.result = "InputEmpty" ->
           EncodingWriterWrite([w EXCEPT !.buffer = e.buffer], DropFirst(data, e.read))
      [] e.result = "OutputFull" ->
           EncodingWriterWrite(Reserve([w EXCEPT !.buffer = e.buffer]), DropFirst(data, e.read))
      [] e.result = "Unmappable" ->
           EncodingWriterWrite(
               AfterEscape(w, EncodeFrom(UnmappableEscape(e.c), 1, e.buffer, w.capacity)),
               DropFirst(data, e.read))

(* EncodingWriter::write.                                                  *)
EncodingWriterWrite(w, data) ==
    IF data = <<>> THEN flush_buffer(w)
    ELSE EncodingWriterMatch(w, data, EncodeFrom(data, 1, w.buffer, w.capacity))

(* EncodingWriter::finish: the encoder has nothing pending; flush.         *)
EncodingWriterFinish(w) == flush_buffer(w)

----------------------------------------------------------------------------
(* PropertiesWriter.                                                       *)

PropertiesWriterNew(writer) ==
    [comment_prefix |-> <<HASH, SP>>,
     kv_separator |-> <<EQUALS>>,
     line_ending |-> "LF",
     writer |-> EncodingWriterNew(writer)]

LineEndingText(line_ending) ==
    CASE line_ending = "CR" -> <<CR>>
      [] line_ending = "LF" -> <<LF>>
      [] line_ending = "CRLF" -> <<CR, LF>>

WriterWrites(pw, data) == [pw EXCEPT !.writer = EncodingWriterWrite(pw.writer, data)]

(* A plausible slip: the line ending that was set is not looked at.        *)
write_eol_Unix(pw) == WriterWrites(pw, <<LF>>)

write_eol(pw) == WriterWrites(pw, LineEndingText(pw.line_ending))

(* format!("\\u{:x}", c as u16) for c < ' '                                *)
EscapedControl(c) == <<BACKSLASH, CH_u>> \o LowerHex(c)

(* One arm of the match of write_escaped.                                  *)
EscapedChar(c) ==
    CASE c = BACKSLASH -> <<BACKSLASH, BACKSLASH>>
      [] c = SP -> <<BACKSLASH, SP>>
      [] c = TAB -> <<BACKSLASH, CH_t>>
      [] c = CR -> <<BACKSLASH, CH_r>>
      [] c = LF -> <<BACKSLASH, CH_n>>
      [] c = FF -> <<BACKSLASH, CH_f>>
      [] c = COLON -> <<BACKSLASH, COLON>>
      [] c = EQUALS -> <<BACKSLASH, EQUALS>>
      [] c = BANG -> <<BACKSLASH, BANG>>
      [] c = HASH -> <<BACKSLASH, HASH>>
      [] c < SP /\ c \notin {TAB, CR, LF, FF} -> EscapedControl(c)
      [] OTHER -> <<c>>

(* The string escaped that the loop of write_escaped builds for s.         *)
RECURSIVE Escaped(_)
Escaped(s) == IF s = <<>> THEN <<>> ELSE EscapedChar(Head(s)) \o Escaped(Tail(s))

LineStarted(pw) == [pw EXCEPT !.writer.lines_written = @ + 1]

write_escaped(pw, s) == WriterWrites(LineStarted(pw), Escaped(s))

(* PropertiesWriter::write.                                                *)
PropertiesWriterWrite(pw, key, value) ==
    write_eol(write_escaped(WriterWrites(write_escaped(pw, key), pw.kv_separator), value))

(* PropertiesWriter::finish.                                               *)
PropertiesWriterFinish(pw) == [pw EXCEPT !.writer = EncodingWriterFinish(pw.writer)]

(* PropertiesWriter::write_comment.                                        *)
write_comment(pw, comment) ==
    write_eol(WriterWrites(WriterWrites(LineStarted(pw), pw.comment_prefix), comment))

(* An error's line number when it has none (None).                         *)
NoLine == -1

HasNone(s, chars) == \A i \in 1..Len(s) : s[i] \notin chars

(* ^[ \t\x0c]*[#!][^\r\n]*$ on what follows the leading run of space, tab  *)
(* and form feed.                                                          *)
PrefixTailMatches(s) == s # <<>> /\ Head(s) \in {HASH, BANG} /\ HasNone(Tail(s), {CR, LF})

CommentPrefixMatches(prefix) == PrefixTailMatches(SkipLeading(prefix, {SP, TAB, FF}))

(* A plausible slip: the prefix is stored before it is validated.          *)
set_comment_prefix_Eager(pw, prefix) ==
    [st |-> [pw EXCEPT !.comment_prefix = prefix],
     item |-> IF CommentPrefixMatches(prefix) THEN Ok(<<>>)
              ELSE Err("Bad comment prefix", NoLine)]

(* PropertiesWriter::set_comment_prefix.                                   *)
set_comment_prefix(pw, prefix) ==
    IF ~CommentPrefixMatches(prefix)
    THEN [st |-> pw, item |-> Err("Bad comment prefix", NoLine)]
    ELSE [st |-> [pw EXCEPT !.comment_prefix = prefix], item |-> Ok(<<>>)]

(* ^([ \t\x0c]*[:=][ \t\x0c]*|[ \t\x0c]+)$ : s is the separator after its  *)
(* leading run of space, tab and form feed, whole the separator itself.    *)
SeparatorTailMatches(whole, s) ==
    IF s = <<>> THEN whole # <<>>
    ELSE Head(s) \in {COLON, EQUALS} /\ SkipLeading(Tail(s), {SP, TAB, FF}) = <<>>

KvSeparatorMatches(separator) ==
    SeparatorTailMatches(separator, SkipLeading(separator, {SP, TAB, FF}))

(* PropertiesWriter::set_kv_separator.                                     *)
set_kv_separator(pw, separator) ==
    IF ~KvSeparatorMatches(separator)
    THEN [st |-> pw, item |-> Err("Bad key/value separator", NoLine)]
    ELSE [st |-> [pw EXCEPT !.kv_separator = separator], item |-> Ok(<<>>)]

(* PropertiesWriter::set_line_ending.                                      *)
set_line_ending(pw, line_ending) == [pw EXCEPT !.line_ending = line_ending]

----------------------------------------------------------------------------
(* Harness of tests::logical_lines: LogicalLines over a vector of natural  *)
(* lines, pulled until it yields None.                                     *)

MaxLines == 3
MaxLogicalChars == 3
(* 'a', backslash, '#', space, and vertical tab U+000B                     *)
LogicalAlphabet == {97, BACKSLASH, HASH, SP, 11}

(* The sequences of at most n lines over A with at most t characters in all. *)
RECURSIVE LinesWithin(_, _, _)
LinesWithin(A, n, t) ==
    IF n = 0 THEN {<<>>}
    ELSE {<<>>} \cup UNION {{<<l>> \o rest : rest \in LinesWithin(A, n - 1, t - Len(l))} :
                                l \in StringsUpTo(A, t)}

InitLogical ==
    /\ input \in LinesWithin(LogicalAlphabet, MaxLines, MaxLogicalChars)
    /\ it = LogicalLinesNew(VecIter(input))
    /\ out = <<>>
    /\ marks = <<>>
    /\ sink = <<>>
    /\ pc = "run"

PullLogical ==
    /\ pc = "run"
    /\ Yielded(LogicalLinesNext(it))
    /\ UNCHANGED <<input, sink>>

NextLogical == PullLogical

SpecLogical == InitLogical /\ [][NextLogical]_vars

(* The natural lines call j of next() took from its source.                *)
Mark(j) == IF j = 0 THEN 0 ELSE marks[j]

UsedBy(j) == SubSeq(input, Mark(j - 1) + 1, Mark(j))

(* The number of consecutive backslashes s ends with.                      *)
TrailingBackslashes(s) ==
    CHOOSE n \in 0..Len(s) :
        /\ \A i \in (Len(s) - n + 1)..Len(s) : s[i] = BACKSLASH
        /\ n < Len(s) => s[Len(s) - n] # BACKSLASH

EndsOdd(s) == TrailingBackslashes(s) % 2 = 1

(* The comment-start rule: optional space, tab, CR, LF, form feed, then # or !. *)
IsCommentStart(s) ==
    \E i \in 1..Len(s) :
        /\ s[i] \in {HASH, BANG}
        /\ \A j \in 1..(i - 1) : s[j] \in {SP, TAB, CR, LF, FF}

(* What a natural line may contribute to a logical line: all of it when it *)
(* is the first constituent, else an end of it that keeps its trailing     *)
(* backslashes.                                                            *)
Pieces(line, first) ==
    IF first THEN {line}
    ELSE {SubSeq(line, i, Len(line)) : i \in 1..(Len(line) - TrailingBackslashes(line) + 1)}

(* text is the constituents u joined: each but the last gives its piece    *)
(* less one trailing backslash, the last gives its piece whole.            *)
RECURSIVE JoinedFrom(_, _, _)
JoinedFrom(text, u, first) ==
    IF Len(u) = 1 THEN text \in Pieces(u[1], first)
    ELSE \E p \in Pieces(u[1], first) :
            /\ p # <<>>
            /\ p[Len(p)] = BACKSLASH
            /\ IsPrefix(Pop(p), text)
            /\ JoinedFrom(DropFirst(text, Len(p) - 1), Tail(u), FALSE)

\* C5: a natural line that is not a first-line comment is continued iff it ends
\* with an odd number of backslashes; a continued line loses exactly one trailing
\* backslash and the next natural line is appended; a line ending with an even
\* number (zero included) completes the logical line and keeps its backslashes.
C5_ContinuationRule ==
    \A j \in 1..Len(marks) :
        LET u == UsedBy(j)
        IN  IF j <= Len(out)
            THEN /\ Len(u) >= 1
                 /\ ~IsCommentStart(u[1]) =>
                       /\ \A i \in 1..(Len(u) - 1) : EndsOdd(u[i])
                       /\ ~EndsOdd(u[Len(u)])
                       /\ JoinedFrom(out[j].val.text, u, TRUE)
            ELSE /\ \A i \in 1..Len(u) : EndsOdd(u[i])
                 /\ Len(u) >= 1 => ~IsCommentStart(u[1])

(* A line ending with three backslashes was continued and lost one of them. *)
C5_Witness ==
    /\ pc = "done"
    /\ input = << <<BACKSLASH, BACKSLASH, BACKSLASH>>, <<>> >>
    /\ out = <<Ok(LogicalLine(1, <<BACKSLASH, BACKSLASH>>))>>

\* C7: a first natural line that matches the comment-start rule is a logical
\* line by itself, text unchanged, even when it ends with an odd number of
\* backslashes, and the next natural line starts a new logical line; a # or !
\* at the start of a continuation line does not stop the join.
C7_CommentsNeverContinue ==
    \A j \in 1..Len(out) :
        LET u == UsedBy(j)
        IN  /\ IsCommentStart(u[1]) =>
                  /\ Len(u) = 1
                  /\ out[j].val.text = u[1]
                  /\ out[j].val.line_no = Mark(j)
                  /\ j < Len(out) => out[j + 1].val.line_no = Mark(j) + 1
            /\ \A i \in 2..Len(u) :
                  IsCommentStart(u[i]) => (i < Len(u) <=> EndsOdd(u[i]))

(* A comment ending with a backslash stayed alone.                         *)
C7_Witness ==
    /\ pc = "done"
    /\ input = << <<HASH, BACKSLASH>>, <<97>> >>
    /\ out = <<Ok(LogicalLine(1, <<HASH, BACKSLASH>>)), Ok(LogicalLine(2, <<97>>))>>

\* C3: when the natural lines end while a continuation is open, the text
\* accumulated so far, continuation backslash removed, is emitted as the final
\* logical line, numbered by its first natural line; it is not dropped.
C3_OpenContinuationEmitted ==
    (pc = "done" /\ Len(input) > 0) =>
        /\ Len(out) > 0
        /\ Mark(Len(out)) = Len(input)
        /\ LET j == Len(out)
               u == UsedBy(j)
           IN  (~IsCommentStart(u[1]) /\ EndsOdd(u[Len(u)])) =>
                   /\ out[j].val.line_no = Mark(j - 1) + 1
                   /\ JoinedFrom(Append(out[j].val.text, BACKSLASH), u, TRUE)

(* The text after the leading run of space, tab, CR, LF and form feed.     *)
StripIgnorable(line) == SkipLeading(line, {SP, TAB, CR, LF, FF})

RECURSIVE ClaimedJoin(_, _)
ClaimedJoin(u, first) ==
    LET piece == IF first THEN u[1] ELSE StripIgnorable(u[1])
    IN  IF Len(u) = 1 THEN piece ELSE Pop(piece) \o ClaimedJoin(Tail(u), FALSE)

\* C6: a continuation line loses exactly its leading run of space, tab, CR, LF
\* and form feed, nothing else (a line starting with vertical tab or no-break
\* space is appended unchanged); the first constituent is appended verbatim.
C6_OnlyIgnorableStripped ==
    \A j \in 1..Len(out) : out[j].val.text = ClaimedJoin(UsedBy(j), TRUE)

----------------------------------------------------------------------------
(* Harness of tests::properties_iter and tests::properties_error_line_number: *)
(* PropertiesIter over a byte slice, or over a byte slice chained with a   *)
(* reader that fails, pulled until it yields None or an error.             *)

MaxReadLen == 4
(* 'a', '=', backslash, LF, CR, '#', space                                 *)
ReadAlphabet == {97, EQUALS, BACKSLASH, LF, CR, HASH, SP}

(* The input of tests::properties_iter with its seven records.             *)
ScenarioB ==
    <<97, 61, 98, 10, 99, 61, 100, 92, 10, 101, 61, 102, 10, 103, 61, 104, 13,
      35, 99, 111, 109, 109, 101, 110, 116, 49, 13, 10,
      35, 99, 111, 109, 109, 101, 110, 116, 50, 92, 10, 105, 61, 106, 92, 10,
      35, 99, 111, 109, 109, 101, 110, 116, 51, 10, 32, 10,
      35, 99, 111, 109, 109, 101, 110, 116, 52>>

InitRead ==
    /\ input \in StringsUpTo(ReadAlphabet, MaxReadLen) \cup {ScenarioB}
    /\ \E fail \in BOOLEAN :
          it = PropertiesIterNew(Reader(input, INPUT_BUFFER_CAPACITY, fail))
    /\ out = <<>>
    /\ marks = <<>>
    /\ sink = <<>>
    /\ pc = "run"

PullRead ==
    /\ pc = "run"
    /\ Yielded(PropertiesIterNext(it))
    /\ UNCHANGED <<input, sink>>

NextRead == PullRead

SpecRead == InitRead /\ [][NextRead]_vars

(* Where the terminators of s start: every CR, and every LF not right     *)
(* after a CR.                                                             *)
TerminatorsOf(s) ==
    {i \in 1..Len(s) : s[i] = CR \/ (s[i] = LF /\ ~(i > 1 /\ s[i - 1] = CR))}

(* The k-th smallest member of the set of numbers S.                       *)
Nth(S, k) == CHOOSE i \in S : Cardinality({j \in S : j < i}) = k - 1

(* Where the terminator that starts at i ends: CR LF is one terminator.    *)
TerminatorEnd(s, i) == IF s[i] = CR /\ i < Len(s) /\ s[i + 1] = LF THEN i + 1 ELSE i

(* The natural-line texts of the characters s: what lies between its       *)
(* terminators, before the first and after the last.                       *)
SplitLines(s) ==
    [k \in 1..(Cardinality(TerminatorsOf(s)) + 1) |->
        SubSeq(s,
               IF k = 1 THEN 1 ELSE TerminatorEnd(s, Nth(TerminatorsOf(s), k - 1)) + 1,
               IF k = Cardinality(TerminatorsOf(s)) + 1 THEN Len(s)
               ELSE Nth(TerminatorsOf(s), k) - 1)]

(* FirstOf(T, n): the number of the first natural line of the logical line *)
(* that natural line n of T belongs to.  Line n - 1 carries on into line n *)
(* when it ends with an odd number of backslashes, unless it is a comment  *)
(* that starts its logical line.                                           *)
FirstLines(T) ==
    LET first[n \in 1..Len(T)] ==
            IF n = 1 THEN 1
            ELSE IF EndsOdd(T[n - 1]) /\ ~(first[n - 1] = n - 1 /\ IsCommentStart(T[n - 1]))
                 THEN first[n - 1]
                 ELSE n
    IN  first

FirstOf(T, n) == FirstLines(T)[n]

InputLines == SplitLines(DecodeAll(input))

RecordNumbers == [j \in 1..Len(out) |-> out[j].val.line_number]

\* C8: every record carries the 1-based number of the first natural line of its
\* logical line, never a later constituent; the numbers of successive records
\* are strictly increasing; natural lines taken by continuations and by
\* whitespace-only logical lines are counted (Scenario B: 1, 2, 4, 5, 6, 7, 10).
C8_RecordLineNumbers ==
    /\ \A j \in 1..Len(out) :
          out[j].tag = "Ok" =>
              /\ out[j].val.line_number = FirstOf(InputLines, marks[j])
              /\ out[j].val.line_number >= 1
              /\ \A h \in 1..(j - 1) : out[h].val.line_number < out[j].val.line_number
    /\ (input = ScenarioB /\ pc = "done") => RecordNumbers = <<1, 2, 4, 5, 6, 7, 10>>

(* Scenario B was read to its end: its second record spans lines 2-3, and  *)
(* line 9 is blank.                                                        *)
C8_Witness ==
    /\ input = ScenarioB
    /\ pc = "done"
    /\ Len(out) = 7
    /\ out[2].val.line_number = 2
    /\ marks[2] = 3
    /\ out[7].val.line_number = 10

\* C9: when the byte source fails, the error carries the number of the first
\* natural line of the logical line being assembled at the moment of failure,
\* also when the failure comes while a continuation line is being read.
C9_TransportErrorLine ==
    (pc = "error" /\ out[Len(out)].val = "I/O error") =>
        out[Len(out)].line = FirstOf(InputLines, marks[Len(marks)] + 1)

----------------------------------------------------------------------------
(* Harness of tests::unescape: unescape applied to a raw text.             *)

MaxEscapeLen == 5
(* '+', '0', '4', 'd', '8', 'g'                                            *)
UnescapeAlphabet == {PLUS, 48, 52, 100, 56, 103}
UnescapeLineNumbers == {1, 7}

(* Raw texts with one escape: at most one 'a', then backslash and 'u',     *)
(* then what follows the 'u'.                                              *)
UnescapeInputs ==
    {pre \o <<BACKSLASH, CH_u>> \o body :
        pre \in StringsUpTo({97}, 1), body \in StringsUpTo(UnescapeAlphabet, MaxEscapeLen)}

InitUnescape ==
    /\ input \in UnescapeInputs
    /\ \E n \in UnescapeLineNumbers : it = [line_number |-> n]
    /\ out = <<>>
    /\ marks = <<>>
    /\ sink = <<>>
    /\ pc = "run"

ApplyUnescape ==
    /\ pc = "run"
    /\ out' = <<unescape(input, it.line_number)>>
    /\ pc' = "done"
    /\ UNCHANGED <<input, it, marks, sink>>

NextUnescape == ApplyUnescape

SpecUnescape == InitUnescape /\ [][NextUnescape]_vars

IsHexChar(c) == c \in (48..57) \cup (65..70) \cup (97..102)

HexCharValue(c) == IF c <= 57 THEN c - 48 ELSE IF c <= 70 THEN c - 55 ELSE c - 87

FourHexValue(d) ==
    4096 * HexCharValue(d[1]) + 256 * HexCharValue(d[2])
        + 16 * HexCharValue(d[3]) + HexCharValue(d[4])

(* Where the backslash of the input's escape is.                           *)
EscapeAt == CHOOSE k \in 1..Len(input) : input[k] = BACKSLASH

\* C10: the u of a backslash-u escape must be followed by exactly four
\* hexadecimal digits (0-9, a-f, A-F), which are replaced by the character of
\* that 16-bit value; with fewer than four characters left, with any of the
\* four not a hexadecimal digit (a '+' for one), or with a surrogate value,
\* unescape returns an error that carries the line number, and no text.
C10_UnicodeEscape ==
    pc = "done" =>
        LET body == DropFirst(input, EscapeAt + 1)
            pre == SubSeq(input, 1, EscapeAt - 1)
            r == out[1]
        IN  IF /\ Len(body) >= 4
               /\ \A i \in 1..4 : IsHexChar(body[i])
               /\ FourHexValue(body) \notin 55296..57343
            THEN /\ r.tag = "Ok"
                 /\ r.val = pre \o <<FourHexValue(body)>> \o DropFirst(body, 4)
            ELSE /\ r.tag = "Err"
                 /\ r.line = it.line_number

----------------------------------------------------------------------------
(* The escape round trip: the string that write_escaped builds for s, and  *)
(* unescape applied to it.                                                 *)

MaxEscapedLen == 2
(* U+0001, tab, LF, form feed, CR, space, '!', '#', ':', '=', backslash,   *)
(* 'a', U+1F41E                                                            *)
EscapeAlphabet ==
    {1, TAB, LF, FF, CR, SP, BANG, HASH, COLON, EQUALS, BACKSLASH, 97, 128030}

InitEscape ==
    /\ input \in StringsUpTo(EscapeAlphabet, MaxEscapedLen)
    /\ it = [line_number |-> 1]
    /\ out = <<>>
    /\ marks = <<>>
    /\ sink = <<>>
    /\ pc = "escape"

ApplyEscape ==
    /\ pc = "escape"
    /\ sink' = Escaped(input)
    /\ pc' = "unescape"
    /\ UNCHANGED <<input, it, out, marks>>

ApplyUnescapeOfEscaped ==
    /\ pc = "unescape"
    /\ out' = <<unescape(sink, it.line_number)>>
    /\ pc' = "done"
    /\ UNCHANGED <<input, it, marks, sink>>

NextEscape == ApplyEscape \/ ApplyUnescapeOfEscaped

SpecEscape == InitEscape /\ [][NextEscape]_vars

\* C2: for every string s, unescape applied to the escaped form that
\* write_escaped builds for s succeeds and returns exactly s.
C2_EscapeRoundTrip ==
    pc = "done" => (out[1].tag = "Ok" /\ out[1].val = input)

----------------------------------------------------------------------------
(* Read after write: a PropertiesWriter with the default configuration over *)
(* a Vec<u8> performs write(k, v) and finish(), and PropertiesIter reads   *)
(* the bytes back until it yields None or an error.                        *)

MaxPairChars == 3
(* U+0001, LF, space, '#', '=', backslash, 'a', U+20AC                     *)
PairAlphabet == {1, LF, SP, HASH, EQUALS, BACKSLASH, 97, 8364}

InitRoundTrip ==
    /\ \E k \in StringsUpTo(PairAlphabet, MaxPairChars) :
          \E v \in StringsUpTo(PairAlphabet, MaxPairChars - Len(k)) : input = <<k, v>>
    /\ it = PropertiesWriterNew(<<>>)
    /\ out = <<>>
    /\ marks = <<>>
    /\ sink = <<>>
    /\ pc = "write"

Write ==
    /\ pc = "write"
    /\ it' = PropertiesWriterWrite(it, input[1], input[2])
    /\ sink' = it'.writer.writer
    /\ pc' = "finish"
    /\ UNCHANGED <<input, out, marks>>

Finish ==
    /\ pc = "finish"
    /\ it' = PropertiesWriterFinish(it)
    /\ sink' = it'.writer.writer
    /\ pc' = "open"
    /\ UNCHANGED <<input, out, marks>>

Open ==
    /\ pc = "open"
    /\ it' = PropertiesIterNew(Reader(sink, INPUT_BUFFER_CAPACITY, FALSE))
    /\ pc' = "run"
    /\ UNCHANGED <<input, out, marks, sink>>

NextRoundTrip == Write \/ Finish \/ Open \/ PullRead

SpecRoundTrip == InitRoundTrip /\ [][NextRoundTrip]_vars

\* C1: write(k, v) then finish() with the default configuration gives bytes
\* from which PropertiesIter yields exactly one record, a KeyValue equal to
\* (k, v), and then ends without error, for all k and v the charset can
\* represent (empty strings, control characters, backslashes, separators,
\* '#' and '!' included).
C1_ReadAfterWrite ==
    /\ pc \notin {"error", "panic"}
    /\ pc = "done" =>
          /\ Len(out) = 1
          /\ out[1].val.data = [kind |-> "KVPair", key |-> input[1], value |-> input[2]]

----------------------------------------------------------------------------
(* unescape applied to raw texts with any mix of escapes.                  *)

MaxRawLen == 4
(* backslash, 't', 'n', 'f', 'r', 'u', 'a'                                 *)
RawAlphabet == {BACKSLASH, CH_t, CH_n, CH_f, CH_r, CH_u, 97}

InitUnescapeRaw ==
    /\ input \in StringsUpTo(RawAlphabet, MaxRawLen)
    /\ \E n \in UnescapeLineNumbers : it = [line_number |-> n]
    /\ out = <<>>
    /\ marks = <<>>
    /\ sink = <<>>
    /\ pc = "run"

SpecUnescapeRaw == InitUnescapeRaw /\ [][NextUnescape]_vars

(* Introduces(s)[i]: character i of s is a backslash that no backslash     *)
(* before it has consumed, so it starts an escape.                         *)
Introduces(s) ==
    LET intro[i \in 1..Len(s)] ==
            s[i] = BACKSLASH /\ (i = 1 \/ ~intro[i - 1])
    IN  intro

(* What the character after an escape's backslash stands for.              *)
EscapeMeaning(c) ==
    CASE c = CH_t -> TAB
      [] c = CH_n -> LF
      [] c = CH_f -> FF
      [] c = CH_r -> CR
      [] OTHER -> c

(* The positions of s that give a character: all but the backslashes that  *)
(* start an escape, except one that is the last character.                 *)
GivingPositions(s) ==
    {i \in 1..Len(s) : ~Introduces(s)[i] \/ i = Len(s)}

GivenAt(s, i) ==
    IF Introduces(s)[i] THEN NUL
    ELSE IF i > 1 /\ Introduces(s)[i - 1] THEN EscapeMeaning(s[i])
    ELSE s[i]

PlainUnescaped(s) ==
    [k \in 1..Cardinality(GivingPositions(s)) |-> GivenAt(s, Nth(GivingPositions(s), k))]

HasUnicodeEscape(s) ==
    \E i \in 1..(Len(s) - 1) : Introduces(s)[i] /\ s[i + 1] = CH_u

\* C11: unescape of a text with no backslash-u escape never fails: backslash
\* followed by t, n, f, r gives tab, LF, form feed, CR; backslash followed by
\* any other character c gives c alone; a backslash that is the last character
\* gives one NUL; every other character is copied unchanged.
C11_PlainEscapes ==
    (pc = "done" /\ ~HasUnicodeEscape(input)) =>
        /\ out[1].tag = "Ok"
        /\ out[1].val = PlainUnescaped(input)

(* backslash-t, 'a', then a lone backslash: tab, 'a', NUL.                 *)
C11_Witness ==
    /\ pc = "done"
    /\ input = <<BACKSLASH, CH_t, 97, BACKSLASH>>
    /\ out[1].tag = "Ok"
    /\ out[1].val = <<TAB, 97, NUL>>

----------------------------------------------------------------------------
(* The escaped form as documented, character by character.                 *)

LowerHexDigits == <<48, 49, 50, 51, 52, 53, 54, 55, 56, 57, 97, 98, 99, 100, 101, 102>>

(* Four lowercase hexadecimal digits of n, zero-padded.                    *)
FourLowerHex(n) ==
    <<LowerHexDigits[((n \div 4096) % 16) + 1], LowerHexDigits[((n \div 256) % 16) + 1],
      LowerHexDigits[((n \div 16) % 16) + 1], LowerHexDigits[(n % 16) + 1]>>

ClaimedEscapedChar(c) ==
    CASE c \in {BACKSLASH, SP, COLON, EQUALS, BANG, HASH} -> <<BACKSLASH, c>>
      [] c = TAB -> <<BACKSLASH, 116>>
      [] c = CR -> <<BACKSLASH, 114>>
      [] c = LF -> <<BACKSLASH, 110>>
      [] c = FF -> <<BACKSLASH, 102>>
      [] c < 32 /\ c \notin {TAB, CR, LF, FF} -> <<BACKSLASH, 117>> \o FourLowerHex(c)
      [] OTHER -> <<c>>

RECURSIVE ClaimedEscaped(_)
ClaimedEscaped(s) ==
    IF s = <<>> THEN <<>> ELSE ClaimedEscapedChar(Head(s)) \o ClaimedEscaped(Tail(s))

\* C12: in the escaped form, backslash, space, tab, CR, LF, form feed, ':',
\* '=', '!' and '#' become their two-character backslash forms, every other
\* character below U+0020 becomes backslash, u and exactly four lowercase
\* hexadecimal digits (zero-padded), and all other characters are unchanged.
C12_EscapedForm ==
    pc \in {"unescape", "done"} => sink = ClaimedEscaped(input)

----------------------------------------------------------------------------
(* EncodingWriter::write on one text, into a Vec<u8>.                      *)

MaxEncodeLen == 3
(* 'a', U+00E9, U+20AC, which the charset has; U+0100 and U+1F41E, which   *)
(* it has not.                                                             *)
EncodeAlphabet == {97, 233, 8364, 256, 128030}

InitEncode ==
    /\ input \in StringsUpTo(EncodeAlphabet, MaxEncodeLen)
    /\ it = EncodingWriterNew(<<>>)
    /\ out = <<>>
    /\ marks = <<>>
    /\ sink = <<>>
    /\ pc = "run"

EncodeWrite ==
    /\ pc = "run"
    /\ it' = EncodingWriterWrite(it, input)
    /\ sink' = it'.writer
    /\ out' = <<Ok(<<>>)>>
    /\ pc' = "done"
    /\ UNCHANGED <<input, marks>>

NextEncode == EncodeWrite

SpecEncode == InitEncode /\ [][NextEncode]_vars

ClaimedEncodedChar(c) ==
    IF EncodeChar(c) >= 0 THEN <<EncodeChar(c)>> ELSE <<BACKSLASH, 117>> \o FourLowerHex(c)

RECURSIVE ClaimedEncoded(_)
ClaimedEncoded(s) ==
    IF s = <<>> THEN <<>> ELSE ClaimedEncodedChar(Head(s)) \o ClaimedEncoded(Tail(s))

\* C13: for every character the charset cannot represent, EncodingWriter::write
\* emits in its place backslash, u and exactly four lowercase hexadecimal
\* digits of the character's code point, and returns no error.
C13_UnmappableFallback ==
    pc = "done" => (out[1].tag = "Ok" /\ sink = ClaimedEncoded(input))

----------------------------------------------------------------------------
(* Harness of tests::parse_line: parse_line applied to a line.             *)

MaxParseLen == 5
(* 'a', backslash, ':', '=', space, LF, '#'                                *)
ParseAlphabet == {97, BACKSLASH, COLON, EQUALS, SP, LF, HASH}

InitParse ==
    /\ input \in StringsUpTo(ParseAlphabet, MaxParseLen)
    /\ it = [line_number |-> 1]
    /\ out = <<>>
    /\ marks = <<>>
    /\ sink = <<>>
    /\ pc = "run"

ApplyParse ==
    /\ pc = "run"
    /\ out' = <<parse_line(input)>>
    /\ pc' = IF parse_line(input).kind = "Panic" THEN "panic" ELSE "done"
    /\ UNCHANGED <<input, it, marks, sink>>

NextParse == ApplyParse

SpecParse == InitParse /\ [][NextParse]_vars

IgnorableWs == {SP, TAB, CR, LF, FF}

(* How many characters of s, from position from on, are ignorable          *)
(* whitespace before the first that is not.                                *)
WsRun(s, from) ==
    CHOOSE n \in 0..(Len(s) - from + 1) :
        /\ \A i \in from..(from + n - 1) : s[i] \in IgnorableWs
        /\ from + n <= Len(s) => s[from + n] \notin IgnorableWs

(* The line after its leading ignorable whitespace.                        *)
Stripped(line) == DropFirst(line, WsRun(line, 1))

(* Where the key of s ends: before the first whitespace, ':' or '=' that   *)
(* is not the second character of a backslash unit.                        *)
KeyStops(s) ==
    {i \in 1..Len(s) :
        s[i] \in IgnorableWs \cup {COLON, EQUALS} /\ ~(i > 1 /\ Introduces(s)[i - 1])}

ClaimedKeyLen(s) ==
    IF KeyStops(s) = {} THEN Len(s) ELSE Nth(KeyStops(s), 1) - 1

(* The value of s whose key has k characters: after the whitespace that    *)
(* follows the key, at most one ':' or '=', and the whitespace after it.   *)
ClaimedValueStart(s, k) ==
    IF k + WsRun(s, k + 1) + 1 <= Len(s) /\ s[k + WsRun(s, k + 1) + 1] \in {COLON, EQUALS}
    THEN k + WsRun(s, k + 1) + 1 + WsRun(s, k + WsRun(s, k + 1) + 2) + 1
    ELSE k + WsRun(s, k + 1) + 1

ClaimedKey(s) == SubSeq(s, 1, ClaimedKeyLen(s))

ClaimedValue(s) == SubSeq(s, ClaimedValueStart(s, ClaimedKeyLen(s)), Len(s))

IsCommentLine(line) == Stripped(line) # <<>> /\ Head(Stripped(line)) \in {HASH, BANG}

IsBlankLine(line) == Stripped(line) = <<>>

\* C14: for a non-comment line, after the leading ignorable whitespace the raw
\* key is the longest prefix of characters that are not whitespace, ':' or
\* '=', a backslash and the character after it always being a unit of the key;
\* then at most one separator is consumed (one ':' or '=' with whitespace
\* around it, or whitespace alone); the raw value is all the rest, trailing
\* whitespace kept; with no separator the value is empty.
C14_KeyValueSplit ==
    (pc = "done" /\ ~IsCommentLine(input) /\ ~IsBlankLine(input)) =>
        /\ out[1].kind = "KVPair"
        /\ out[1].key = ClaimedKey(Stripped(input))
        /\ out[1].value = ClaimedValue(Stripped(input))

(* backslash-':' stays in the key, '=' is the separator, "a " the value.   *)
C14_Witness ==
    /\ pc = "done"
    /\ input = <<BACKSLASH, COLON, EQUALS, 97, SP>>
    /\ out[1] = ParsedKVPair(<<BACKSLASH, COLON>>, <<97, SP>>)

----------------------------------------------------------------------------
(* Classification of the lines PropertiesIter reads.                       *)

(* The last character of s that is not ignorable whitespace; 0 for none.   *)
LastNonWs(s) ==
    IF \A i \in 1..Len(s) : s[i] \in IgnorableWs THEN 0
    ELSE CHOOSE i \in 1..Len(s) :
            s[i] \notin IgnorableWs /\ \A j \in (i + 1)..Len(s) : s[j] \in IgnorableWs

StrippedBoth(s) == SubSeq(Stripped(s), 1, LastNonWs(Stripped(s)))

(* The comment text of a comment line: what follows its '#' or '!',        *)
(* ignorable whitespace stripped at both ends.                             *)
ClaimedCommentText(line) == StrippedBoth(Tail(Stripped(line)))

(* Natural line n of T is a logical line by itself: it starts one and is   *)
(* not continued.                                                          *)
WholeLine(T, n) ==
    /\ FirstOf(T, n) = n
    /\ IsCommentStart(T[n]) \/ ~EndsOdd(T[n])

(* The record claimed for the logical line made of the natural line text.  *)
ClaimedRecordData(text) ==
    IF IsCommentLine(text)
    THEN [kind |-> "Comment", key |-> <<>>,
          value |-> PlainUnescaped(ClaimedCommentText(text))]
    ELSE [kind |-> "KVPair",
          key |-> PlainUnescaped(ClaimedKey(Stripped(text))),
          value |-> PlainUnescaped(ClaimedValue(Stripped(text)))]

\* C15: after the leading ignorable whitespace, a line whose next character is
\* '#' or '!' is a Comment whose text is the rest of the line, ignorable
\* whitespace stripped at both ends; an empty or whitespace-only line gives no
\* token and PropertiesIter yields no record for it; every other line is a
\* KeyValue.
C15_Classification ==
    /\ \A j \in 1..Len(out) :
          (out[j].tag = "Ok" /\ WholeLine(InputLines, marks[j])) =>
              /\ ~IsBlankLine(InputLines[marks[j]])
              /\ out[j].val.data = ClaimedRecordData(InputLines[marks[j]])
    /\ \A n \in 1..Mark(Len(marks)) :
          (WholeLine(InputLines, n) /\ ~IsBlankLine(InputLines[n])) =>
              \E j \in 1..Len(out) : out[j].tag = "Ok" /\ marks[j] = n

(* A blank line between a comment and a pair gave no record.               *)
C15_Witness ==
    /\ pc = "done"
    /\ input = <<HASH, LF, LF, 97>>
    /\ Len(out) = 2
    /\ out[1].val.data.kind = "Comment"
    /\ out[2].val.data.kind = "KVPair"
    /\ out[2].val.line_number = 3

\* C16: parse_line is total: for every character sequence, those with CR or
\* LF or a backslash followed by LF included, it returns no token, a Comment
\* or a KeyValue, and reaches neither of its two panics.
C16_Total ==
    pc # "run" =>
        /\ pc = "done"
        /\ out[1].kind \in {"None", "Comment", "KVPair"}

----------------------------------------------------------------------------
(* Joining twice: LogicalLines over a vector of natural lines, pulled      *)
(* until it yields None, then a fresh LogicalLines over the texts it gave, *)
(* pulled until it yields None.  sink keeps the texts of the first pass.   *)

RECURSIVE TextsOf(_)
TextsOf(lines) ==
    IF lines = <<>> THEN <<>> ELSE <<Head(lines).val.text>> \o TextsOf(Tail(lines))

InitRejoin == InitLogical

PullFirst ==
    /\ pc = "run"
    /\ Yielded(LogicalLinesNext(it))
    /\ UNCHANGED <<input, sink>>

Refeed ==
    /\ pc = "done"
    /\ sink' = TextsOf(out)
    /\ it' = LogicalLinesNew(VecIter(TextsOf(out)))
    /\ out' = <<>>
    /\ marks' = <<>>
    /\ pc' = "again"
    /\ UNCHANGED input

PullAgain ==
    /\ pc = "again"
    /\ it' = LogicalLinesNext(it).st
    /\ out' = IF LogicalLinesNext(it).item.tag = "None" THEN out
              ELSE Append(out, LogicalLinesNext(it).item)
    /\ marks' = Append(marks, NaturalLinesPulled(LogicalLinesNext(it).st))
    /\ pc' = IF LogicalLinesNext(it).item.tag = "None" THEN "rejoined" ELSE "again"
    /\ UNCHANGED <<input, sink>>

NextRejoin == PullFirst \/ Refeed \/ PullAgain

SpecRejoin == InitRejoin /\ [][NextRejoin]_vars

\* C17: joining is idempotent on text: the texts of the logical lines the
\* joiner emits for a sequence of natural lines, fed to a fresh joiner as
\* natural lines, come out as logical lines with the same texts in the same
\* order.
C17_JoinIdempotent == pc = "rejoined" => TextsOf(out) = sink

(* Two lines joined into one that starts like a comment, and a second     *)
(* pass that gives it back.                                                *)
C17_Witness ==
    /\ pc = "rejoined"
    /\ input = <<<<BACKSLASH>>, <<SP, HASH>>>>
    /\ sink = <<<<HASH>>>>
    /\ TextsOf(out) = sink

----------------------------------------------------------------------------
(* Harness of the PropertiesWriter tests: a writer over an empty Vec, a    *)
(* run of calls, then finish().  input is the log of the calls made, out   *)
(* what each returned, sink the bytes the Vec holds, marks what could be   *)
(* observed after each call.                                               *)

MaxCalls == 3

Call(op, a, b, e) == [op |-> op, a |-> a, b |-> b, e |-> e]

(* "" and "€ " ; ("", ""), ("a", " :"), ("#é", "a")                        *)
CommentSamples == {<<>>, <<8364, SP>>}
PairSamples == {<<<<>>, <<>>>>, <<<<97>>, <<SP, COLON>>>>, <<<<HASH, 233>>, <<97>>>>}

(* Prefixes in the manner of tests::properties_writer_good_comment_prefix  *)
(* (the first four) and tests::properties_writer_bad_comment_prefix.       *)
PrefixSamples ==
    {<<HASH>>, <<BANG, SP>>, <<SP, TAB, FF, HASH, 97>>, <<HASH, HASH>>,
     <<>>, <<SP>>, <<97, HASH>>, <<HASH, LF>>, <<BANG, CR, 97>>}

(* Separators in the manner of tests::properties_writer_good_kv_separator  *)
(* (the first five) and tests::properties_writer_bad_kv_separator.         *)
SeparatorSamples ==
    {<<SP>>, <<TAB, FF>>, <<COLON>>, <<EQUALS>>, <<SP, COLON, TAB>>,
     <<>>, <<COLON, EQUALS>>, <<97>>, <<SP, LF>>, <<COLON, SP, COLON>>}

LineEndings == {"CR", "LF", "CRLF"}

(* What a caller holding the Vec and the writer can see after a call.      *)
Snapshot(pw) ==
    [sunk |-> Len(pw.writer.writer),
     buffered |-> Len(pw.writer.buffer),
     comment_prefix |-> pw.comment_prefix,
     kv_separator |-> pw.kv_separator,
     line_ending |-> pw.line_ending]

InitWriter ==
    /\ input = <<>>
    /\ it = PropertiesWriterNew(<<>>)
    /\ out = <<>>
    /\ marks = <<>>
    /\ sink = <<>>
    /\ pc = "open"

(* The call was made, left the writer as pw and returned result.           *)
Called(call, pw, result) ==
    /\ input' = Append(input, call)
    /\ it' = pw
    /\ out' = Append(out, result)
    /\ marks' = Append(marks, Snapshot(pw))
    /\ sink' = pw.writer.writer
    /\ pc' = IF call.op = "finish" THEN "finished" ELSE "open"

CallWriteComment ==
    /\ pc = "open" /\ Len(input) < MaxCalls
    /\ \E c \in CommentSamples :
          Called(Call("write_comment", c, <<>>, "LF"), write_comment(it, c), Ok(<<>>))

CallWrite ==
    /\ pc = "open" /\ Len(input) < MaxCalls
    /\ \E kv \in PairSamples :
          Called(Call("write", kv[1], kv[2], "LF"),
                 PropertiesWriterWrite(it, kv[1], kv[2]), Ok(<<>>))

CallSetCommentPrefix ==
    /\ pc = "open" /\ Len(input) < MaxCalls
    /\ \E p \in PrefixSamples :
          Called(Call("set_comment_prefix", p, <<>>, "LF"),
                 set_comment_prefix(it, p).st, set_comment_prefix(it, p).item)

CallSetKvSeparator ==
    /\ pc = "open" /\ Len(input) < MaxCalls
    /\ \E p \in SeparatorSamples :
          Called(Call("set_kv_separator", p, <<>>, "LF"),
                 set_kv_separator(it, p).st, set_kv_separator(it, p).item)

CallSetLineEnding ==
    /\ pc = "open" /\ Len(input) < MaxCalls
    /\ \E e \in LineEndings :
          Called(Call("set_line_ending", <<>>, <<>>, e), set_line_ending(it, e), Ok(<<>>))

CallFinish ==
    /\ pc = "open"
    /\ Called(Call("finish", <<>>, <<>>, "LF"), PropertiesWriterFinish(it), Ok(<<>>))

NextWriter ==
    \/ CallWriteComment
    \/ CallWrite
    \/ CallSetCommentPrefix
    \/ CallSetKvSeparator
    \/ CallSetLineEnding
    \/ CallFinish

SpecWriter == InitWriter /\ [][NextWriter]_vars

(* The configuration in force when call j is made: what the call before    *)
(* left, the defaults "# ", "=" and LF for the first.                      *)
InForce(j) ==
    IF j = 1
    THEN [comment_prefix |-> <<HASH, SP>>, kv_separator |-> <<EQUALS>>, line_ending |-> "LF"]
    ELSE [comment_prefix |-> marks[j - 1].comment_prefix,
          kv_separator |-> marks[j - 1].kv_separator,
          line_ending |-> marks[j - 1].line_ending]

ClaimedTerminator(e) ==
    CASE e = "CR" -> <<CR>> [] e = "LF" -> <<LF>> [] e = "CRLF" -> <<CR, LF>>

(* The bytes of text none of whose characters the charset lacks.           *)
ClaimedBytes(text) == [i \in 1..Len(text) |-> IF text[i] = 8364 THEN 128 ELSE text[i]]

(* The line claimed for call j.                                            *)
ClaimedLine(j) ==
    CASE input[j].op = "write_comment" ->
           ClaimedBytes(InForce(j).comment_prefix \o input[j].a
                        \o ClaimedTerminator(InForce(j).line_ending))
      [] input[j].op = "write" ->
           ClaimedBytes(ClaimedEscaped(input[j].a) \o InForce(j).kv_separator
                        \o ClaimedEscaped(input[j].b)
                        \o ClaimedTerminator(InForce(j).line_ending))
      [] OTHER -> <<>>

(* The lines claimed for the first j calls, one after the other.           *)
ClaimedOutput[j \in 0..(MaxCalls + 2)] ==
    IF j = 0 THEN <<>> ELSE ClaimedOutput[j - 1] \o ClaimedLine(j)

\* C18: the bytes the sink receives are, in call order, one line per call:
\* comment prefix, text as given and terminator for write_comment; escaped key,
\* separator, escaped value and terminator for write; each with the prefix,
\* separator and line ending in force when the call was made; and when a call
\* returns, all its bytes are in the sink and the writer's buffer is empty.
C18_WriterOutput ==
    /\ sink = ClaimedOutput[Len(input)]
    /\ \A j \in 1..Len(input) :
          /\ out[j].tag = "Ok" => marks[j].sunk = Len(ClaimedOutput[j])
          /\ marks[j].buffered = 0

(* tests::properties_writer_custom_line_ending with a separator set and a  *)
(* pair that needs escaping.                                               *)
C18_Witness ==
    /\ pc = "finished"
    /\ Len(input) = 4
    /\ input[1] = Call("set_line_ending", <<>>, <<>>, "CRLF")
    /\ input[2] = Call("write_comment", <<8364, SP>>, <<>>, "LF")
    /\ input[3] = Call("write", <<97>>, <<SP, COLON>>, "LF")
    /\ sink = <<HASH, SP, 128, SP, CR, LF, 97, EQUALS, BACKSLASH, SP, BACKSLASH, COLON, CR, LF>>

BlankChars == {SP, TAB, FF}

(* Zero or more of space, tab, form feed; then '#' or '!'; then anything   *)
(* but CR and LF.                                                          *)
ClaimedPrefixOk(p) ==
    \E k \in 1..Len(p) :
        /\ p[k] \in {HASH, BANG}
        /\ \A i \in 1..(k - 1) : p[i] \in BlankChars
        /\ \A i \in (k + 1)..Len(p) : p[i] \notin {CR, LF}

(* One or more of space, tab, form feed; or exactly one ':' or '=' with    *)
(* such characters, or none, on either side.                               *)
ClaimedSeparatorOk(p) ==
    \/ p # <<>> /\ \A i \in 1..Len(p) : p[i] \in BlankChars
    \/ \E k \in 1..Len(p) :
          /\ p[k] \in {COLON, EQUALS}
          /\ \A i \in 1..Len(p) : i # k => p[i] \in BlankChars

SunkBefore(j) == IF j = 1 THEN 0 ELSE marks[j - 1].sunk

ConfigAfter(j) ==
    [comment_prefix |-> marks[j].comment_prefix,
     kv_separator |-> marks[j].kv_separator,
     line_ending |-> marks[j].line_ending]

\* C19: set_comment_prefix succeeds exactly on zero or more space, tab or form
\* feed, then '#' or '!', then no CR or LF; set_kv_separator succeeds exactly
\* on one or more space, tab or form feed, or on one ':' or '=' with such
\* characters around it. A rejected call returns an error without a line
\* number, writes nothing, and leaves prefix, separator and line ending as they
\* were.
C19_Setters ==
    \A j \in 1..Len(input) :
        /\ input[j].op = "set_comment_prefix" =>
              /\ out[j].tag = "Ok" <=> ClaimedPrefixOk(input[j].a)
              /\ out[j].tag = "Ok" =>
                    ConfigAfter(j) = [InForce(j) EXCEPT !.comment_prefix = input[j].a]
        /\ input[j].op = "set_kv_separator" =>
              /\ out[j].tag = "Ok" <=> ClaimedSeparatorOk(input[j].a)
              /\ out[j].tag = "Ok" =>
                    ConfigAfter(j) = [InForce(j) EXCEPT !.kv_separator = input[j].a]
        /\ out[j].tag = "Err" =>
              /\ out[j].line = NoLine
              /\ marks[j].sunk = SunkBefore(j)
              /\ ConfigAfter(j) = InForce(j)

(* A prefix is set, the next one is rejected, and the comment written      *)
(* after that carries the first.                                           *)
C19_Witness ==
    /\ Len(input) = 3
    /\ input[1] = Call("set_comment_prefix", <<BANG, SP>>, <<>>, "LF")
    /\ input[2] = Call("set_comment_prefix", <<HASH, LF>>, <<>>, "LF")
    /\ input[3] = Call("write_comment", <<>>, <<>>, "LF")
    /\ out[1].tag = "Ok"
    /\ out[2].tag = "Err"
    /\ sink = <<BANG, SP, LF>>

----------------------------------------------------------------------------
(* PropertiesIter::read_into, one turn of its for loop at a time.  marks   *)
(* logs what self.next() returned, sink the (key, value) arguments of the  *)
(* calls of f, out what read_into returned.                                *)

(* A plausible slip: f is called for comments too.                         *)
CallbackOn_Every(f, data) == Append(f, <<data.key, data.value>>)

(* Lines 594-596: the calls of f after the record with this data.          *)
CallbackOn(f, data) ==
    IF data.kind = "KVPair" THEN Append(f, <<data.key, data.value>>) ELSE f

InitReadInto ==
    /\ input \in StringsUpTo(ReadAlphabet, MaxReadLen) \cup {ScenarioB}
    /\ \E fail \in BOOLEAN :
          it = PropertiesIterNew(Reader(input, INPUT_BUFFER_CAPACITY, fail))
    /\ out = <<>>
    /\ marks = <<>>
    /\ sink = <<>>
    /\ pc = "run"

(* The loop turn in which self.next() returned r.                          *)
ReadIntoTurn(r) ==
    /\ it' = r.st
    /\ marks' = Append(marks, r.item)
    /\ sink' = IF r.item.tag = "Ok" THEN CallbackOn(sink, r.item.val.data) ELSE sink
    /\ out' = CASE r.item.tag = "None" -> <<Ok(<<>>)>>
                [] r.item.tag = "Err" -> <<r.item>>
                [] OTHER -> out
    /\ pc' = CASE r.item.tag = "None" -> "done"
               [] r.item.tag = "Err" -> "error"
               [] r.item.tag = "Panic" -> "panic"
               [] OTHER -> "run"

ReadIntoStep ==
    /\ pc = "run"
    /\ ReadIntoTurn(PropertiesIterNext(it))
    /\ UNCHANGED input

NextReadInto == ReadIntoStep

SpecReadInto == InitReadInto /\ [][NextReadInto]_vars

(* The positions of marks at which PropertiesIter yielded a KeyValue.      *)
PairsYielded ==
    {j \in 1..Len(marks) : marks[j].tag = "Ok" /\ marks[j].val.data.kind = "KVPair"}

\* C20: read_into calls the callback once, in input order, for every KeyValue
\* record PropertiesIter yields before its first error, never for a Comment and
\* never after the first error; it returns that first error, or Ok when the
\* input ends without one.
C20_ReadInto ==
    /\ Len(sink) = Cardinality(PairsYielded)
    /\ \A k \in 1..Len(sink) :
          sink[k] = <<marks[Nth(PairsYielded, k)].val.data.key,
                      marks[Nth(PairsYielded, k)].val.data.value>>
    /\ \A j \in 1..(Len(marks) - 1) : marks[j].tag = "Ok"
    /\ pc = "error" => out[1].tag = "Err" /\ marks[Len(marks)].tag = "Err"
                       /\ out[1].val = marks[Len(marks)].val
                       /\ out[1].line = marks[Len(marks)].line
    /\ pc = "done" => out[1].tag = "Ok" /\ marks[Len(marks)].tag = "None"
    /\ pc = "run" => out = <<>>

(* A pair, a comment, a pair, then the reader fails: two calls and the     *)
(* error.                                                                  *)
C20_Witness ==
    /\ pc = "error"
    /\ input = <<97, LF, HASH, LF>>
    /\ Len(marks) = 3
    /\ marks[2].val.data.kind = "Comment"
    /\ sink = <<<<<<97>>, <<>>>>>>

----------------------------------------------------------------------------
(* EncodingWriter::write on a text long enough to fill the buffer of 256   *)
(* bytes: a run of 'a', then a few characters more.                        *)

MaxSpare == 8
MaxTailLen == 2

Filler(n) == [k \in 1..n |-> 97]

InitEncodeLong ==
    /\ \E n \in (BUFFER_CAPACITY - MaxSpare)..BUFFER_CAPACITY :
          \E tail \in StringsUpTo(EncodeAlphabet, MaxTailLen) :
              input = Filler(n) \o tail
    /\ it = EncodingWriterNew(<<>>)
    /\ out = <<>>
    /\ marks = <<>>
    /\ sink = <<>>
    /\ pc = "run"

SpecEncodeLong == InitEncodeLong /\ [][NextEncode]_vars

(* How many characters at the start of s the charset has.                  *)
MappableRun(s) ==
    CHOOSE n \in 0..Len(s) :
        /\ \A i \in 1..n : EncodeChar(s[i]) >= 0
        /\ n < Len(s) => EncodeChar(s[n + 1]) < 0

(* The encoding of every mappable character and the whole escape text of   *)
(* every other one, in order.                                              *)
RECURSIVE WholeEncoding(_)
WholeEncoding(s) ==
    IF MappableRun(s) = Len(s) THEN [i \in 1..Len(s) |-> EncodeChar(s[i])]
    ELSE [i \in 1..MappableRun(s) |-> EncodeChar(s[i])]
         \o UnmappableEscape(s[MappableRun(s) + 1])
         \o WholeEncoding(DropFirst(s, MappableRun(s) + 1))

\* C21: the bytes EncodingWriter::write hands to the sink hold, in order, the
\* encoding of every mappable character and the complete escape text of every
\* unmappable one, also when the buffer fills while an escape is encoded: no
\* byte of an escape is dropped.
C21_EscapeWhole == pc = "done" => sink = WholeEncoding(input)

----------------------------------------------------------------------------
(* Reading in pieces: DecodeIter over a byte source that hands out at most *)
(* chunk bytes a read, pulled until it yields None; then NaturalLines over *)
(* the same source, pulled until it yields None.  sink is the characters   *)
(* DecodeIter produced, out the natural lines.                             *)

(* Sixty-six bytes: twelve times e-acute thrice and CR LF, then e-acute    *)
(* thrice, a CR that is byte 64, an LF that is byte 65, and 'a'.  Decoded, *)
(* the first 64 bytes take more than 64 bytes of UTF-8.                    *)
LongInput ==
    [i \in 1..66 |-> IF i = 66 THEN 97
                     ELSE IF i % 5 = 4 THEN CR
                     ELSE IF i % 5 = 0 THEN LF
                     ELSE 233]

InitChunks ==
    /\ input \in StringsUpTo(NaturalAlphabet, MaxNaturalLen) \cup {LongInput}
    /\ \E chunk \in (1..MaxChunk) \cup {INPUT_BUFFER_CAPACITY} :
          it = DecodeIterNew(Reader(input, chunk, FALSE))
    /\ out = <<>>
    /\ marks = <<>>
    /\ sink = <<>>
    /\ pc = "chars"

PullChar ==
    /\ pc = "chars"
    /\ it' = DecodeIterNext(it).st
    /\ sink' = IF DecodeIterNext(it).item.tag = "Ok"
               THEN Append(sink, DecodeIterNext(it).item.val) ELSE sink
    /\ pc' = IF DecodeIterNext(it).item.tag = "None" THEN "drained" ELSE "chars"
    /\ UNCHANGED <<input, out, marks>>

StartLines ==
    /\ pc = "drained"
    /\ it' = NaturalLinesNew(Reader(input, it.reader.chunk, FALSE))
    /\ pc' = "run"
    /\ UNCHANGED <<input, out, marks, sink>>

PullLine ==
    /\ pc = "run"
    /\ Yielded(NaturalLinesNext(it))
    /\ UNCHANGED <<input, sink>>

NextChunks == PullChar \/ StartLines \/ PullLine

SpecChunks == InitChunks /\ [][NextChunks]_vars

\* C22: the characters DecodeIter produces, and the natural lines made of
\* them, are those of the input whatever number of bytes each read returns and
\* whether or not the output buffer fills: none lost, duplicated or reordered;
\* the stream ends only with the queue empty and the source at its end; a CR and
\* the LF after it are one terminator also when they come in different reads.
C22_ChunkIndependent ==
    /\ pc = "chars" => IsPrefix(sink, DecodeAll(input))
    /\ pc # "chars" => sink = DecodeAll(input)
    /\ pc = "drained" =>
          /\ it.chars = <<>>
          /\ it.input_buffer = <<>>
          /\ it.reader.data = <<>>
    /\ pc = "done" =>
          /\ Len(out) = Len(SplitLines(DecodeAll(input)))
          /\ \A i \in 1..Len(out) :
                out[i].tag = "Ok" /\ out[i].val.text = SplitLines(DecodeAll(input))[i]

(* The long input read 64 bytes at a time: the CR ends the first read, the *)
(* LF starts the second, and they end line 13 together.                    *)
C22_Witness ==
    /\ pc = "done"
    /\ input = LongInput
    /\ it.chars.iter.reader.chunk = INPUT_BUFFER_CAPACITY
    /\ Len(out) = 14
    /\ out[13].val.text = <<233, 233, 233>>
    /\ out[14].val.text = <<97>>

----------------------------------------------------------------------------
(* PropertiesIter over a byte source that ends and never fails, pulled     *)
(* until it yields None and then some times more.  sink logs what the      *)
(* pulls after the first None returned.                                    *)

MaxPullsAfterEnd == 2

InitPulls ==
    /\ input \in StringsUpTo(ReadAlphabet, MaxReadLen) \cup {ScenarioB}
    /\ \E chunk \in (1..MaxChunk) \cup {INPUT_BUFFER_CAPACITY} :
          it = PropertiesIterNew(Reader(input, chunk, FALSE))
    /\ out = <<>>
    /\ marks = <<>>
    /\ sink = <<>>
    /\ pc = "run"

PullOn ==
    /\ pc = "run"
    /\ Yielded(PropertiesIterNext(it))
    /\ UNCHANGED <<input, sink>>

PullAfterEnd ==
    /\ pc = "done"
    /\ Len(sink) < MaxPullsAfterEnd
    /\ it' = PropertiesIterNext(it).st
    /\ sink' = Append(sink, PropertiesIterNext(it).item.tag)
    /\ out' = IF PropertiesIterNext(it).item.tag = "None" THEN out
              ELSE Append(out, PropertiesIterNext(it).item)
    /\ marks' = Append(marks, NaturalLinesPulled(PropertiesIterNext(it).st))
    /\ UNCHANGED <<input, pc>>

NextPulls == PullOn \/ PullAfterEnd

(* The caller goes on pulling: WF_vars(PullOn), with ENABLED <<PullOn>>_vars *)
(* written out as pc = "run", since a pull always lengthens marks.          *)
PullFair == []<>(pc # "run") \/ []<><<PullOn>>_vars

SpecPulls == InitPulls /\ [][NextPulls]_vars /\ PullFair

\* C23: over a byte source that ends and never fails, repeated pulls of
\* PropertiesIter come to end-of-sequence; NaturalLines has then handed out
\* one line per terminator and exactly one last line; and every pull after the
\* first end-of-sequence returns end-of-sequence again and leaves the iterator,
\* its byte source and its decoder as they were.
C23_EndPermanent ==
    /\ <>(pc = "done")
    /\ [](pc = "done" =>
             /\ it.lines.physical_lines.eof
             /\ NaturalLinesPulled(it) = Len(InputLines)
             /\ \A k \in 1..Len(sink) : sink[k] = "None")
    /\ [][pc = "done" => (it' = it /\ out' = out)]_vars

(* Two pulls after the end of an input whose last line is a pair.          *)
C23_Witness ==
    /\ pc = "done"
    /\ input = <<97, LF, 97>>
    /\ Len(out) = 2
    /\ sink = <<"None", "None">>
    /\ Len(marks) = 5

----------------------------------------------------------------------------
(* PropertiesIter::next taken apart: LogicalLines over NaturalLines over   *)
(* the bytes, pulled until it yields None; each logical line (out) is      *)
(* passed to parse_line and, when a token comes back, to                   *)
(* parsed_line_to_line, and both results are logged beside it (sink).      *)

ParsedAndLine(parsed, line_no) ==
    [parsed |-> parsed,
     line |-> IF parsed.kind \in {"None", "Panic"} THEN None
              ELSE parsed_line_to_line(parsed, line_no)]

InitTokens ==
    /\ input \in StringsUpTo(ReadAlphabet, MaxReadLen) \cup {ScenarioB}
    /\ it = LogicalLinesNew(NaturalLinesNew(Reader(input, INPUT_BUFFER_CAPACITY, FALSE)))
    /\ out = <<>>
    /\ marks = <<>>
    /\ sink = <<>>
    /\ pc = "run"

PullToken ==
    /\ pc = "run"
    /\ Yielded(LogicalLinesNext(it))
    /\ sink' = IF LogicalLinesNext(it).item.tag = "Ok"
               THEN Append(sink, ParsedAndLine(parse_line(LogicalLinesNext(it).item.val.text),
                                               LogicalLinesNext(it).item.val.line_no))
               ELSE sink
    /\ UNCHANGED input

NextTokens == PullToken

SpecTokens == InitTokens /\ [][NextTokens]_vars

(* The first natural line of the j-th logical line.                        *)
FirstLineOf(j) == InputLines[Mark(j - 1) + 1]

\* C24: every logical line the joiner emits that is not a first-line comment
\* ends in an even number of backslashes; so the raw key and raw value that
\* parse_line takes from it never end in an unpaired backslash, and the NUL
\* that unescape gives for a trailing backslash is found in Comment records
\* only, never in the key or value of a KeyValue.
C24_NoDanglingBackslash ==
    \A j \in 1..Len(out) :
        /\ ~IsCommentStart(FirstLineOf(j)) => ~EndsOdd(out[j].val.text)
        /\ sink[j].parsed.kind = "KVPair" =>
              /\ ~EndsOdd(sink[j].parsed.key)
              /\ ~EndsOdd(sink[j].parsed.value)
              /\ sink[j].line.tag = "Ok"
              /\ sink[j].line.val.data.kind = "KVPair"
              /\ \A i \in 1..Len(sink[j].line.val.data.key) :
                    sink[j].line.val.data.key[i] # NUL
              /\ \A i \in 1..Len(sink[j].line.val.data.value) :
                    sink[j].line.val.data.value[i] # NUL

(* A comment that ends in a backslash carries the NUL; the pair after it   *)
(* does not.                                                               *)
C24_Witness ==
    /\ pc = "done"
    /\ input = <<HASH, BACKSLASH, LF, 97>>
    /\ out[1].val.text = <<HASH, BACKSLASH>>
    /\ sink[1].line.val.data = [kind |-> "Comment", key |-> <<>>, value |-> <<NUL>>]
    /\ sink[2].parsed = ParsedKVPair(<<97>>, <<>>)

\* C25: every Comment record PropertiesIter yields comes from a logical line
\* made of one natural line that itself starts like a comment; a logical line
\* joined from two or more natural lines is never reported as a Comment, also
\* when the joined text begins with '#' or '!'.
C25_CommentsUnjoined ==
    \A j \in 1..Len(out) :
        (out[j].tag = "Ok" /\ out[j].val.data.kind = "Comment") =>
            /\ out[j].val.line_number = marks[j]
            /\ IsCommentStart(InputLines[marks[j]])

(* The write and write_comment calls among the calls made so far.          *)
LineCalls == {j \in 1..Len(input) : input[j].op \in {"write", "write_comment"}}

\* C26: the writer's lines_written counter, which is the line number an error
\* of the sink carries, equals the number of write and write_comment calls
\* started so far: each such call adds exactly one.
C26_LinesWritten == it.writer.lines_written = Cardinality(LineCalls)

====
